---- MODULE Spec2Model ----
(***************************************************************************)
(* FCFE discounted-cash-flow valuation core of the stock fair value        *)
(* calculator: models/fcfe_calculator.py (FCFECalculator),                 *)
(* models/dcf_model.py (FCFEDCFModel) and utils/helpers.py (safe_divide).  *)
(*                                                                         *)
(* Python floats are modelled as exact rationals in lowest terms; float    *)
(* rounding, overflow, inf and nan are outside the model.  A dict entry is *)
(* Absent (no key), None (key holding Python None) or a number.  A Python  *)
(* exception raised by an expression is a value tagged with its type, and  *)
(* every operator that evaluates a Python expression propagates it.        *)
(*                                                                         *)
(* Spec runs one call at a time, each call as one step.  SpecConcurrent    *)
(* runs the calls of two callers on one model object step by step, in      *)
(* every interleaving, with the result dicts on a heap of identities.      *)
(***************************************************************************)
EXTENDS Integers, Sequences, FiniteSets, TLC

VARIABLES
    projection_years,       \* self.projection_years
    terminal_growth_rate,   \* self.terminal_growth_rate
    pc,                     \* "idle": no call running; "done": a call returned
    op,                     \* the operation that ran last
    financial_data,         \* the caller's record, as it is after the call
    risk_free_rate,         \* arguments of the last call
    market_return,
    custom_growth_rate,
    growth_rates,
    discount_rates,
    fcfe_ret,               \* value returned by calculate_fcfe
    result,                 \* dict returned by calculate_fair_value
    results,                \* dict returned by sensitivity_analysis
    raised,                 \* TRUE when the call ended by propagating an exception
    static_args,            \* arguments of a direct call of a static method
    static_ret,             \* value returned by that call
    frames,                 \* per caller: the call it is running, step by step
    heap                    \* the result dicts created by running calls

vars == <<projection_years, terminal_growth_rate, pc, op, financial_data,
          risk_free_rate, market_return, custom_growth_rate, growth_rates,
          discount_rates, fcfe_ret, result, results, raised, static_args,
          static_ret,
          frames, heap>>

----------------------------------------------------------------------------
(* Values: numbers, None, a missing key, a raised exception.               *)

Abs(i) == IF i < 0 THEN -i ELSE i

RECURSIVE GCD(_, _)
GCD(a, b) == IF b = 0 THEN a ELSE GCD(b, a % b)

\* the rational n/d (d # 0) in lowest terms with a positive denominator
Num(n, d) ==
    LET g == GCD(Abs(n), Abs(d))
        s == IF d < 0 THEN -1 ELSE 1
    IN  [t |-> "num", n |-> s * (n \div g), d |-> s * (d \div g)]

N(i) == [t |-> "num", n |-> i, d |-> 1]

None == [t |-> "None", n |-> 0, d |-> 1]
Absent == [t |-> "absent", n |-> 0, d |-> 1]
TypeError == [t |-> "TypeError", n |-> 0, d |-> 1]
ZeroDivisionError == [t |-> "ZeroDivisionError", n |-> 0, d |-> 1]
IndexError == [t |-> "IndexError", n |-> 0, d |-> 1]

IsNum(x) == x.t = "num"
IsExc(x) == x.t \in {"TypeError", "ZeroDivisionError", "IndexError"}

\* a local variable: e is evaluated once and F applied to its value
Bind(e, F(_)) == CHOOSE r \in {F(v) : v \in {e}} : TRUE

\* exact rational arithmetic on numbers
RAdd(x, y) ==
    LET g == GCD(x.d, y.d)
        l == (x.d \div g) * y.d
    IN  Num(x.n * (l \div x.d) + y.n * (l \div y.d), l)
RNeg(x) == [t |-> "num", n |-> -x.n, d |-> x.d]
RSub(x, y) == RAdd(x, RNeg(y))
RMul(x, y) ==
    LET g1 == GCD(Abs(x.n), y.d)
        g2 == GCD(Abs(y.n), x.d)
    IN  Num((x.n \div g1) * (y.n \div g2), (x.d \div g2) * (y.d \div g1))
RInv(x) == Num(x.d, x.n)
RLt(x, y) == x.n * y.d < y.n * x.d
RLe(x, y) == x.n * y.d <= y.n * x.d

\* what a binary operator does before it computes: an exception in an
\* operand propagates, None as an operand raises TypeError
OperandError(x, y) ==
    IF IsExc(x) THEN x
    ELSE IF IsExc(y) THEN y
    ELSE IF ~IsNum(x) \/ ~IsNum(y) THEN TypeError
    ELSE None

\* Python's binary operators on evaluated operands
PyAdd(a, b) ==
    CHOOSE r \in {IF OperandError(x, y) # None THEN OperandError(x, y)
                  ELSE RAdd(x, y) : x \in {a}, y \in {b}} : TRUE
PySub(a, b) ==
    CHOOSE r \in {IF OperandError(x, y) # None THEN OperandError(x, y)
                  ELSE RSub(x, y) : x \in {a}, y \in {b}} : TRUE
PyMul(a, b) ==
    CHOOSE r \in {IF OperandError(x, y) # None THEN OperandError(x, y)
                  ELSE RMul(x, y) : x \in {a}, y \in {b}} : TRUE
\* a zero divisor raises ZeroDivisionError
PyDiv(a, b) ==
    CHOOSE r \in {IF OperandError(x, y) # None THEN OperandError(x, y)
                  ELSE IF y.n = 0 THEN ZeroDivisionError
                  ELSE RMul(x, RInv(y)) : x \in {a}, y \in {b}} : TRUE

\* x ** k for an integer k >= 0
RECURSIVE PyPow(_, _)
PyPow(x, k) == IF k = 0 THEN N(1) ELSE PyMul(PyPow(x, k - 1), x)

\* truth value of an object in a condition: None and zero are false
Truthy(x) == IsNum(x) /\ x.n # 0

\* dict.get(key, default): the default only when the key is missing
Get(fd, key, default) == IF fd[key] = Absent THEN default ELSE fd[key]

\* d[key] = value on a dict modelled as a function on its keys
Put(d, key, value) ==
    [k \in (DOMAIN d) \cup {key} |-> IF k = key THEN value ELSE d[k]]

----------------------------------------------------------------------------
(* FCFECalculator                                                          *)

\* variant: capital expenditure subtracted as a positive magnitude
ComponentFcfe_CapexSubtracted(net_income, capex, change_nwc) ==
    PySub(PySub(net_income, capex), change_nwc)

\* the simplified FCFE: fcfe = net_income + capex - change_nwc
ComponentFcfe(net_income, capex, change_nwc) ==
    PySub(PyAdd(net_income, capex), change_nwc)

\* the condition guarding the OCF fallback: if operating_cf and capex
OcfFallbackTaken(operating_cf, capex) == Truthy(operating_cf) /\ Truthy(capex)

\* the OCF fallback of calculate_fcfe and its final return None
fcfe_from_ocf(fd, capex) ==
    LET operating_cf == Get(fd, "operating_cash_flow", N(0))
    IN  IF ~OcfFallbackTaken(operating_cf, capex) THEN None
        ELSE Bind(PyAdd(operating_cf, capex),
                  LAMBDA fcfe : IF RLt(N(0), fcfe) THEN fcfe ELSE None)

\* the component formula of calculate_fcfe and what follows it
fcfe_from_components(fd) ==
    LET net_income == Get(fd, "net_income", N(0))
        capex == Get(fd, "capital_expenditure", N(0))
        change_nwc == Get(fd, "change_in_nwc", N(0))
    IN  Bind(ComponentFcfe(net_income, capex, change_nwc),
             LAMBDA fcfe : IF IsExc(fcfe) THEN fcfe
                           ELSE IF RLt(N(0), fcfe) THEN fcfe
                           ELSE fcfe_from_ocf(fd, capex))

\* body of the try block of calculate_fcfe; an exception is its value
calculate_fcfe_try(fd) ==
    LET fcf == Get(fd, "free_cash_flow", None)
    IN  IF Truthy(fcf) /\ RLt(N(0), fcf) THEN fcf
        ELSE fcfe_from_components(fd)

\* calculate_fcfe: any exception is caught and None returned
calculate_fcfe(fd) ==
    Bind(calculate_fcfe_try(fd), LAMBDA v : IF IsExc(v) THEN None ELSE v)

\* variant: a negative cost of equity raised to zero
calculate_cost_of_equity_FlooredAtZero(rf, beta, mr) ==
    Bind(PyAdd(rf, PyMul(beta, PySub(mr, rf))),
         LAMBDA cost_of_equity :
             IF IsNum(cost_of_equity) /\ RLt(cost_of_equity, N(0)) THEN N(0)
             ELSE cost_of_equity)

\* calculate_cost_of_equity: CAPM
calculate_cost_of_equity(rf, beta, mr) ==
    LET market_risk_premium == PySub(mr, rf)
    IN  PyAdd(rf, PyMul(beta, market_risk_premium))

\* variant: at least one year is projected, whatever `years` is
RECURSIVE project_fcfe_AtLeastOneYear(_, _, _)
project_fcfe_AtLeastOneYear(current_fcfe, growth_rate, years) ==
    IF years <= 1 THEN <<PyMul(current_fcfe, PyAdd(N(1), growth_rate))>>
    ELSE Bind(project_fcfe_AtLeastOneYear(current_fcfe, growth_rate,
                                          years - 1),
              LAMBDA projections :
                  Append(projections,
                         PyMul(projections[years - 1],
                               PyAdd(N(1), growth_rate))))

\* variant: the first projected year is the base itself
RECURSIVE project_fcfe_FromBase(_, _, _)
project_fcfe_FromBase(current_fcfe, growth_rate, years) ==
    IF years <= 0 THEN <<>>
    ELSE Bind(project_fcfe_FromBase(current_fcfe, growth_rate, years - 1),
              LAMBDA projections :
                  Append(projections,
                         IF years = 1 THEN current_fcfe
                         ELSE PyMul(projections[years - 1],
                                    PyAdd(N(1), growth_rate))))

\* project_fcfe: one compounding step per year, for year in range(1, years + 1)
RECURSIVE project_fcfe(_, _, _)
project_fcfe(current_fcfe, growth_rate, years) ==
    IF years <= 0 THEN <<>>
    ELSE Bind(project_fcfe(current_fcfe, growth_rate, years - 1),
              LAMBDA projections :
                  Append(projections,
                         PyMul(IF years = 1 THEN current_fcfe
                               ELSE projections[years - 1],
                               PyAdd(N(1), growth_rate))))

\* variant: the guard left out, the given rate always used
GuardedTerminalGrowth_NoGuard(tgr, cost_of_equity) == tgr

\* the terminal growth rate the Gordon formula is evaluated with
GuardedTerminalGrowth(tgr, cost_of_equity) ==
    IF RLe(cost_of_equity, tgr) THEN RMul(cost_of_equity, Num(1, 2)) ELSE tgr

\* variant: the Gordon denominator taken as growth minus cost of equity
calculate_terminal_value_GrowthMinusRate(final_fcfe, tgr, cost_of_equity) ==
    Bind(GuardedTerminalGrowth(tgr, cost_of_equity),
         LAMBDA g : PyDiv(PyMul(final_fcfe, PyAdd(N(1), g)),
                          PySub(g, cost_of_equity)))

\* calculate_terminal_value: Gordon growth model
calculate_terminal_value(final_fcfe, tgr, cost_of_equity) ==
    Bind(GuardedTerminalGrowth(tgr, cost_of_equity),
         LAMBDA g : PyDiv(PyMul(final_fcfe, PyAdd(N(1), g)),
                          PySub(cost_of_equity, g)))

\* the loop of calculate_present_value over the first k cash flows
RECURSIVE pv_cash_flows(_, _, _)
pv_cash_flows(future_cash_flows, cost_of_equity, k) ==
    IF k = 0 THEN N(0)
    ELSE PyAdd(pv_cash_flows(future_cash_flows, cost_of_equity, k - 1),
               PyDiv(future_cash_flows[k],
                     PyPow(PyAdd(N(1), cost_of_equity), k)))

\* variant: the terminal value discounted one year past the last projection
terminal_year_NextYear(future_cash_flows) == Len(future_cash_flows) + 1

\* the year the terminal value is discounted from
terminal_year(future_cash_flows) == Len(future_cash_flows)

\* calculate_present_value
calculate_present_value(future_cash_flows, terminal_value, cost_of_equity) ==
    LET pv_terminal ==
            PyDiv(terminal_value,
                  PyPow(PyAdd(N(1), cost_of_equity),
                        terminal_year(future_cash_flows)))
    IN  PyAdd(pv_cash_flows(future_cash_flows, cost_of_equity,
                            Len(future_cash_flows)),
              pv_terminal)

\* variant: a plain division, no zero test and no except clause
safe_divide_Unguarded(numerator, denominator, default) ==
    PyDiv(numerator, denominator)

\* helpers.safe_divide: the default on a zero denominator and on any exception
safe_divide(numerator, denominator, default) ==
    IF IsNum(denominator) /\ denominator.n = 0 THEN default
    ELSE Bind(PyDiv(numerator, denominator),
              LAMBDA q : IF IsExc(q) THEN default ELSE q)

\* variant: the equity value adjusted by cash and debt before the division
calculate_per_share_value_CashDebtAdjusted(total_equity_value, shares_outstanding, cash, debt) ==
    LET equity_value == PySub(PyAdd(total_equity_value, cash), debt)
    IN  IF ~IsNum(equity_value) \/ ~IsNum(shares_outstanding) THEN TypeError
        ELSE safe_divide(equity_value, shares_outstanding, N(0))

\* calculate_per_share_value: cash and debt are accepted and not used; the
\* log line formats shares_outstanding as a number
calculate_per_share_value(total_equity_value, shares_outstanding, cash, debt) ==
    LET equity_value == total_equity_value
        per_share_value == safe_divide(equity_value, shares_outstanding, N(0))
    IN  IF ~IsNum(equity_value) \/ ~IsNum(shares_outstanding) THEN TypeError
        ELSE per_share_value

----------------------------------------------------------------------------
(* FCFEDCFModel                                                            *)

NoError == "None"
InvalidFCFE == "Could not calculate valid FCFE"
InvalidSharesOutstanding == "Invalid shares outstanding"

\* str(e) of a caught exception, named by the exception's type
ExcMessage(e) == e.t

\* the result dict calculate_fair_value starts from
NewResult ==
    [fair_value |-> None, details |-> <<>>, assumptions |-> <<>>,
     error |-> NoError]

SetDetail(r, key, value) == [r EXCEPT !.details = Put(@, key, value)]
SetAssumption(r, key, value) == [r EXCEPT !.assumptions = Put(@, key, value)]

\* how the try block ends: a return statement, or an exception
Return(r) == [res |-> r, exc |-> None]
Raise(r, e) == [res |-> r, exc |-> e]

\* variant: only a numeric non-positive FCFE is rejected, None passes
FcfeRejected_NumericOnly(current_fcfe) ==
    IsNum(current_fcfe) /\ RLe(current_fcfe, N(0))

\* step 1's test: not current_fcfe or current_fcfe <= 0
FcfeRejected(current_fcfe) ==
    ~Truthy(current_fcfe) \/ RLe(current_fcfe, N(0))

\* variant: the cap left out
CapGrowthRate_Uncapped(growth_rate) == growth_rate

\* step 2's cap: max(min(growth_rate, 0.25), -0.05)
CapGrowthRate(growth_rate) ==
    IF IsExc(growth_rate) THEN growth_rate
    ELSE IF RLt(Num(1, 4), growth_rate) THEN Num(1, 4)
    ELSE IF RLt(growth_rate, Num(-1, 20)) THEN Num(-1, 20)
    ELSE growth_rate

\* variant: the override applied with its sign reversed
ResolveGrowthRate_OverrideNegated(fd, custom) ==
    IF custom = None
    THEN Bind(PyDiv(Get(fd, "historical_growth_rate", N(5)), N(100)),
              LAMBDA growth_rate : CapGrowthRate(growth_rate))
    ELSE PySub(N(0), custom)

\* variant: the override goes through the cap as well
ResolveGrowthRate_OverrideCapped(fd, custom) ==
    IF custom = None
    THEN Bind(PyDiv(Get(fd, "historical_growth_rate", N(5)), N(100)),
              LAMBDA growth_rate : CapGrowthRate(growth_rate))
    ELSE CapGrowthRate(custom)

\* step 2: the growth rate the projection uses
ResolveGrowthRate(fd, custom) ==
    IF custom = None
    THEN Bind(PyDiv(Get(fd, "historical_growth_rate", N(5)), N(100)),
              LAMBDA growth_rate : CapGrowthRate(growth_rate))
    ELSE custom

\* variant: only a negative share count is rejected, zero passes
SharesRejected_NegativeOnly(shares_outstanding) ==
    IsNum(shares_outstanding) /\ RLt(shares_outstanding, N(0))

\* step 7's test: not shares_outstanding or shares_outstanding <= 0
SharesRejected(shares_outstanding) ==
    ~Truthy(shares_outstanding) \/ RLe(shares_outstanding, N(0))

\* variant: the failure is reported on a fresh result
SharesError_Fresh(r6) == [NewResult EXCEPT !.error = InvalidSharesOutstanding]

\* step 7's failure: the error is set on the result built so far
SharesError(r6) == [r6 EXCEPT !.error = InvalidSharesOutstanding]

\* step 9: the current price and the upside, when current_price is truthy
fair_value_step_9(r7, fd, fair_value) ==
    LET current_price == Get(fd, "current_price", None)
        r8 == SetDetail(r7, "current_price", current_price)
    IN  IF ~Truthy(current_price) THEN Return(r7)
        ELSE Bind(PyMul(PyDiv(PySub(fair_value, current_price),
                              current_price), N(100)),
                  LAMBDA upside :
                      IF IsExc(upside) THEN Raise(r8, upside)
                      ELSE Return(SetDetail(r8, "upside_percentage", upside)))

\* steps 7 and 8: the share count and the per-share value
fair_value_step_7(r6, fd, total_pv) ==
    LET shares_outstanding == Get(fd, "shares_outstanding", None)
    IN  IF SharesRejected(shares_outstanding) THEN Return(SharesError(r6))
        ELSE Bind(calculate_per_share_value(total_pv, shares_outstanding,
                                            N(0), N(0)),
                  LAMBDA fair_value :
                      IF IsExc(fair_value) THEN Raise(r6, fair_value)
                      ELSE fair_value_step_9(
                               SetDetail([r6 EXCEPT !.fair_value = fair_value],
                                         "shares_outstanding",
                                         shares_outstanding),
                               fd, fair_value))

\* step 6: the total present value
fair_value_step_6(r5, fd, projected_fcfe, terminal_value, cost_of_equity) ==
    Bind(calculate_present_value(projected_fcfe, terminal_value,
                                 cost_of_equity),
         LAMBDA total_pv :
             IF IsExc(total_pv) THEN Raise(r5, total_pv)
             ELSE fair_value_step_7(
                      SetDetail(r5, "total_present_value", total_pv),
                      fd, total_pv))

\* variant: the rate the Gordon formula was evaluated with is recorded
TerminalGrowthAssumption_Substituted(tgr, cost_of_equity) ==
    RMul(GuardedTerminalGrowth(tgr, cost_of_equity), N(100))

\* the terminal growth rate step 5 records: self.terminal_growth_rate * 100,
\* whatever rate calculate_terminal_value used with this cost of equity
TerminalGrowthAssumption(tgr, cost_of_equity) == RMul(tgr, N(100))

\* step 5: the terminal value from projected_fcfe[-1]
fair_value_step_5(r4, tgr, fd, projected_fcfe, cost_of_equity) ==
    IF Len(projected_fcfe) = 0 THEN Raise(r4, IndexError)
    ELSE Bind(calculate_terminal_value(projected_fcfe[Len(projected_fcfe)],
                                       tgr, cost_of_equity),
              LAMBDA terminal_value :
                  IF IsExc(terminal_value) THEN Raise(r4, terminal_value)
                  ELSE fair_value_step_6(
                           SetAssumption(
                               SetDetail(r4, "terminal_value", terminal_value),
                               "terminal_growth_rate",
                               TerminalGrowthAssumption(tgr, cost_of_equity)),
                           fd, projected_fcfe, terminal_value, cost_of_equity))

\* step 4: the projection
fair_value_step_4(r3, years, tgr, fd, current_fcfe, growth_rate, coe) ==
    Bind(project_fcfe(current_fcfe, growth_rate, years),
         LAMBDA projected_fcfe :
             fair_value_step_5(SetDetail(r3, "projected_fcfe", projected_fcfe),
                               tgr, fd, projected_fcfe, coe))

\* step 3: the cost of equity and the assumptions it records
fair_value_step_3(r2, years, tgr, fd, rf, mr, current_fcfe, growth_rate) ==
    LET beta == Get(fd, "beta", N(1))
    IN  Bind(calculate_cost_of_equity(rf, beta, mr),
             LAMBDA cost_of_equity :
                 IF IsExc(cost_of_equity) THEN Raise(r2, cost_of_equity)
                 ELSE fair_value_step_4(
                          SetAssumption(
                            SetAssumption(
                              SetAssumption(
                                SetAssumption(r2, "cost_of_equity",
                                              RMul(cost_of_equity, N(100))),
                                "beta", beta),
                              "risk_free_rate", RMul(rf, N(100))),
                            "market_return", RMul(mr, N(100))),
                          years, tgr, fd, current_fcfe, growth_rate,
                          cost_of_equity))

\* step 2: the growth rate
fair_value_step_2(r1, years, tgr, fd, rf, mr, custom, current_fcfe) ==
    Bind(ResolveGrowthRate(fd, custom),
         LAMBDA growth_rate :
             IF IsExc(growth_rate) THEN Raise(r1, growth_rate)
             ELSE fair_value_step_3(
                      SetAssumption(r1, "growth_rate",
                                    RMul(growth_rate, N(100))),
                      years, tgr, fd, rf, mr, current_fcfe, growth_rate))

\* the try block of calculate_fair_value: step 1, then the steps after it
fair_value_try(years, tgr, fd, rf, mr, custom) ==
    Bind(calculate_fcfe(fd),
         LAMBDA current_fcfe :
             IF FcfeRejected(current_fcfe)
             THEN Return([NewResult EXCEPT !.error = InvalidFCFE])
             ELSE fair_value_step_2(
                      SetDetail(NewResult, "current_fcfe", current_fcfe),
                      years, tgr, fd, rf, mr, custom, current_fcfe))

\* variant: the exception is logged and the error field left unset
ExceptHandler_ErrorNotSet(b) == [raised |-> FALSE, ret |-> b.res]

\* variant: except ZeroDivisionError only, anything else leaves the call
ExceptHandler_ZeroDivisionOnly(b) ==
    IF b.exc = ZeroDivisionError
    THEN [raised |-> FALSE, ret |-> [b.res EXCEPT !.error = ExcMessage(b.exc)]]
    ELSE [raised |-> TRUE, ret |-> b.res]

\* except Exception as e: result['error'] = str(e), and the result is returned
ExceptHandler(b) ==
    [raised |-> FALSE, ret |-> [b.res EXCEPT !.error = ExcMessage(b.exc)]]

\* calculate_fair_value on a model configured with (years, tgr)
calculate_fair_value(years, tgr, fd, rf, mr, custom) ==
    Bind(fair_value_try(years, tgr, fd, rf, mr, custom),
         LAMBDA b : IF IsExc(b.exc) THEN ExceptHandler(b)
                    ELSE [raised |-> FALSE, ret |-> b.res])

\* variant: a scenario that ended in an error gets no entry
sensitivity_step_SkipErrors(before, valuation, gr) ==
    IF valuation.raised THEN [before EXCEPT !.raised = TRUE]
    ELSE IF valuation.ret.error # NoError THEN before
    ELSE [raised |-> FALSE,
          ret |-> [growth_sensitivity |->
                       Append(before.ret.growth_sensitivity,
                              [growth_rate |-> RMul(gr, N(100)),
                               fair_value |-> valuation.ret.fair_value]),
                   base_case |->
                       IF gr = Num(1, 20) THEN <<valuation.ret>>
                       ELSE before.ret.base_case]]

\* variant: the base case is whatever scenario ran last
sensitivity_step_LastScenarioBase(before, valuation, gr) ==
    IF valuation.raised THEN [before EXCEPT !.raised = TRUE]
    ELSE [raised |-> FALSE,
          ret |-> [growth_sensitivity |->
                       Append(before.ret.growth_sensitivity,
                              [growth_rate |-> RMul(gr, N(100)),
                               fair_value |-> valuation.ret.fair_value]),
                   base_case |-> <<valuation.ret>>]]

\* one iteration of the loop of sensitivity_analysis, for the rate gr
sensitivity_step(before, valuation, gr) ==
    IF valuation.raised THEN [before EXCEPT !.raised = TRUE]
    ELSE [raised |-> FALSE,
          ret |-> [growth_sensitivity |->
                       Append(before.ret.growth_sensitivity,
                              [growth_rate |-> RMul(gr, N(100)),
                               fair_value |-> valuation.ret.fair_value]),
                   base_case |->
                       IF gr = Num(1, 20) THEN <<valuation.ret>>
                       ELSE before.ret.base_case]]

\* the loop of sensitivity_analysis over the first k growth rates; an
\* exception leaving calculate_fair_value would leave the loop as well
RECURSIVE sensitivity_loop(_, _, _, _, _, _, _)
sensitivity_loop(years, tgr, fd, rf, mr, rates, k) ==
    IF k = 0
    THEN [raised |-> FALSE,
          ret |-> [growth_sensitivity |-> <<>>, base_case |-> <<>>]]
    ELSE Bind(sensitivity_loop(years, tgr, fd, rf, mr, rates, k - 1),
              LAMBDA before :
                  IF before.raised THEN before
                  ELSE Bind(calculate_fair_value(years, tgr, fd, rf, mr,
                                                 rates[k]),
                            LAMBDA valuation :
                                sensitivity_step(before, valuation, rates[k])))

\* sensitivity_analysis; base_case is <<>> for None and <<r>> for a result r
sensitivity_analysis(years, tgr, fd, rf, mr, rates) ==
    sensitivity_loop(years, tgr, fd, rf, mr, rates, Len(rates))

----------------------------------------------------------------------------
(* Inputs                                                                  *)

MaxYears == 2           \* projection_years ranges up to MaxYears
MaxRates == 2           \* growth_rates has at most MaxRates elements

FcfeFields == {"free_cash_flow", "net_income", "capital_expenditure",
               "change_in_nwc", "operating_cash_flow"}
OtherFields == {"shares_outstanding", "current_price", "beta",
                "historical_growth_rate"}
\* fields the data source fills in and the valuation never reads
BalanceFields == {"cash", "total_debt", "market_cap"}
Fields == FcfeFields \cup OtherFields \cup BalanceFields

EmptyRecord == [k \in Fields |-> Absent]

\* a record from the values of its FCFE fields and of its other fields
Record(f, o) ==
    [k \in Fields |-> IF k \in FcfeFields THEN f[k]
                      ELSE IF k \in OtherFields THEN o[k]
                      ELSE Absent]

FcfeValues ==
    [free_cash_flow : {Absent, None, N(0), N(-10), N(500)},
     net_income : {Absent, None, N(-50), N(200)},
     capital_expenditure : {Absent, None, N(0), N(-50), N(50)},
     change_in_nwc : {Absent, None, N(20)},
     operating_cash_flow : {Absent, None, N(0), N(100)}]

\* records calculate_fcfe is called with: every combination of the FCFE fields
FcfeRecords == {Record(f, EmptyRecord) : f \in FcfeValues}

\* FCFE and balance-sheet fields of the records valuations run on: free
\* cash flow reported, FCFE from components (with cash, debt and market
\* capitalisation reported), a None component, nothing reported
FcfeProfiles ==
    {[EmptyRecord EXCEPT !.free_cash_flow = N(500)],
     [EmptyRecord EXCEPT !.free_cash_flow = N(-10), !.net_income = N(200),
                         !.capital_expenditure = N(-50),
                         !.change_in_nwc = N(20), !.cash = N(1000),
                         !.total_debt = N(300), !.market_cap = N(5000)],
     [EmptyRecord EXCEPT !.net_income = None,
                         !.capital_expenditure = N(50),
                         !.operating_cash_flow = N(100)],
     EmptyRecord}

\* every combination of share count, price and a missing, None or zero
\* beta, and a priced record with a beta of 2
OtherValues ==
    [shares_outstanding : {None, N(0), N(-5), N(10)},
     current_price : {Absent, N(0), N(20)},
     beta : {Absent, None, N(0)},
     historical_growth_rate : {Absent}]
    \cup
    [shares_outstanding : {N(10)},
     current_price : {N(20)},
     beta : {N(2)},
     historical_growth_rate : {Absent}]

\* <<historical_growth_rate, custom_growth_rate>>: every historical rate
\* without an override, and overrides (zero, negative, above the cap) over a
\* missing, None or numeric historical rate
GrowthInputs ==
    ({Absent, None, N(-10), N(10), N(50)} \X {None})
        \cup ({Absent, None, N(10)} \X {N(0), Num(-1, 10), Num(1, 2)})

\* the record of a valuation call
ValuationRecord(f, o, g) ==
    [k \in Fields |->
        IF k \in BalanceFields THEN f[k]
        ELSE Record(f, [o EXCEPT !.historical_growth_rate = g[1]])[k]]

\* the values self.projection_years is constructed with
ProjectionYears == {-1} \cup (0..MaxYears)

RiskFreeRates == {N(0), Num(1, 20)}
MarketReturns == {N(-1), Num(1, 10), Num(1, 4)}
TerminalGrowthRates == {Num(1, 40), Num(1, 4)}

SensitivityRates == {N(0), Num(1, 20), Num(1, 10)}
\* records sensitivity_analysis runs on
SensitivityRecords ==
    {Record(f, o) :
        f \in {[EmptyRecord EXCEPT !.free_cash_flow = N(500)], EmptyRecord},
        o \in [shares_outstanding : {None, N(10)},
               current_price : {Absent},
               beta : {Absent, None, N(0)},
               historical_growth_rate : {Absent}]}

RateLists == UNION {[1..n -> SensitivityRates] : n \in 0..MaxRates}
\* the discount_rates argument of sensitivity_analysis: not given, or a list
DiscountRateLists == {<<>>, <<Num(3, 20)>>}

\* arguments of direct calls of calculate_terminal_value
FinalFcfes == {N(-100), N(0), N(500)}
GordonGrowthRates == {N(0), Num(1, 40), Num(1, 4)}
CostsOfEquity == {N(-1), N(0), Num(1, 50), Num(1, 40), Num(1, 10), Num(1, 4)}

\* arguments of direct calls of calculate_per_share_value
EquityValues == {N(-100), N(0), Num(1, 3), N(1000)}
ShareCounts == {N(-5), N(0), N(3), N(10)}
CashValues == {N(0), N(1000)}
DebtValues == {N(0), N(300)}

\* arguments of direct calls of project_fcfe
BaseFcfes == {N(100)}
ProjectionGrowthRates == {Num(-1, 10), N(0), Num(1, 20)}

\* arguments of direct calls of calculate_present_value
CashFlowLists == UNION {[1..n -> {N(100), N(110)}] : n \in 0..MaxYears}
TerminalValues == {N(0), N(1000)}
DiscountRates == {N(-1), N(0), Num(1, 10), Num(1, 4)}

\* the callers that may run calls on the one model object at the same time
Callers == {1, 2}

\* identities of result dicts; a caller holds at most two at a time (the
\* valuation in progress and the base case of its sensitivity run)
Ids == 1..(2 * Cardinality(Callers))

\* records, rates and overrides of the calls that run step by step: a full
\* valuation, a missing share count with beta 0, no data, a None beta
ConcurrentRecords ==
    {[EmptyRecord EXCEPT !.free_cash_flow = N(500),
                         !.shares_outstanding = N(10),
                         !.current_price = N(20)],
     [EmptyRecord EXCEPT !.free_cash_flow = N(500), !.beta = N(0)],
     EmptyRecord,
     [EmptyRecord EXCEPT !.free_cash_flow = N(500),
                         !.shares_outstanding = N(10), !.beta = None]}
ConcurrentRates == {<<Num(1, 20), Num(1, 10)>>}
\* <<projection_years, terminal_growth_rate>> of the model object they run on
ConcurrentConfigs == {<<0, Num(1, 40)>>, <<1, Num(1, 4)>>}
ConcurrentOverrides == {None, Num(1, 2)}
ConcurrentRateLists == {<<N(0)>>, <<Num(1, 20), N(0)>>}

\* the frame of a caller that runs no call; fd0, years0 and tgr0 remember
\* the record and the configuration as they were when the call began, and
\* overlap whether another call ran while this one did
IdleFrame ==
    [pc |-> "idle", mode |-> "none", fd0 |-> EmptyRecord, fd |-> EmptyRecord,
     rf |-> None, mr |-> None, custom |-> None, years0 |-> 0, tgr0 |-> None,
     overlap |-> FALSE, res |-> 0, base |-> 0, rates |-> <<>>, k |-> 0,
     sens |-> <<>>, raised |-> FALSE, current_fcfe |-> None,
     growth_rate |-> None, cost_of_equity |-> None, projected_fcfe |-> <<>>,
     terminal_value |-> None, total_pv |-> None]

----------------------------------------------------------------------------
(* The model object and its callers                                        *)

NoArgs ==
    /\ risk_free_rate' = None
    /\ market_return' = None
    /\ custom_growth_rate' = None
    /\ growth_rates' = <<>>
    /\ discount_rates' = <<>>

\* no static method is called directly and no call runs step by step
NoStaticCall ==
    /\ static_args' = <<>>
    /\ static_ret' = None
    /\ UNCHANGED <<frames, heap>>

\* FCFEDCFModel(projection_years, terminal_growth_rate), no call made yet
Init ==
    /\ projection_years \in ProjectionYears
    /\ terminal_growth_rate \in TerminalGrowthRates
    /\ pc = "idle"
    /\ op = "none"
    /\ financial_data = EmptyRecord
    /\ risk_free_rate = None
    /\ market_return = None
    /\ custom_growth_rate = None
    /\ growth_rates = <<>>
    /\ discount_rates = <<>>
    /\ fcfe_ret = None
    /\ result = NewResult
    /\ results = [growth_sensitivity |-> <<>>, base_case |-> <<>>]
    /\ raised = FALSE
    /\ static_args = <<>>
    /\ static_ret = None
    /\ frames = [p \in Callers |-> IdleFrame]
    /\ heap = [i \in Ids |-> NewResult]

\* a caller runs FCFECalculator.calculate_fcfe(fd)
CallCalculateFcfe ==
    /\ pc = "idle"
    /\ \E fd \in FcfeRecords :
         /\ financial_data' = fd
         /\ fcfe_ret' = calculate_fcfe(fd)
    /\ pc' = "done"
    /\ op' = "calculate_fcfe"
    /\ raised' = FALSE
    /\ NoArgs
    /\ NoStaticCall
    /\ UNCHANGED <<projection_years, terminal_growth_rate, result, results>>

\* a caller runs model.calculate_fair_value(fd, rf, mr, custom)
CallCalculateFairValue ==
    /\ pc = "idle"
    /\ \E f \in FcfeProfiles, o \in OtherValues, g \in GrowthInputs,
          rf \in RiskFreeRates, mr \in MarketReturns :
         \E fd \in {ValuationRecord(f, o, g)} :
         \E out \in {calculate_fair_value(projection_years,
                                          terminal_growth_rate,
                                          fd, rf, mr, g[2])} :
             /\ financial_data' = fd
             /\ risk_free_rate' = rf
             /\ market_return' = mr
             /\ custom_growth_rate' = g[2]
             /\ result' = out.ret
             /\ raised' = out.raised
    /\ pc' = "done"
    /\ op' = "calculate_fair_value"
    /\ growth_rates' = <<>>
    /\ discount_rates' = <<>>
    /\ NoStaticCall
    /\ UNCHANGED <<projection_years, terminal_growth_rate, fcfe_ret, results>>

\* a caller runs model.sensitivity_analysis(fd, rf, mr, growth_rates,
\* discount_rates); the body never reads discount_rates
CallSensitivityAnalysis ==
    /\ pc = "idle"
    /\ \E fd \in SensitivityRecords, rf \in RiskFreeRates,
          mr \in MarketReturns, rates \in RateLists :
         \E supplied \in (IF Len(rates) <= 1 THEN DiscountRateLists
                           ELSE {<<>>}),
            out \in {sensitivity_analysis(projection_years,
                                          terminal_growth_rate,
                                          fd, rf, mr, rates)} :
             /\ financial_data' = fd
             /\ risk_free_rate' = rf
             /\ market_return' = mr
             /\ growth_rates' = rates
             /\ discount_rates' = supplied
             /\ results' = out.ret
             /\ raised' = out.raised
    /\ pc' = "done"
    /\ op' = "sensitivity_analysis"
    /\ custom_growth_rate' = None
    /\ NoStaticCall
    /\ UNCHANGED <<projection_years, terminal_growth_rate, fcfe_ret, result>>

\* a static method called directly returns a value or lets its exception out
StaticCall(name, args, out) ==
    /\ pc = "idle"
    /\ pc' = "done"
    /\ op' = name
    /\ static_args' = args
    /\ static_ret' = IF IsExc(out) THEN None ELSE out
    /\ raised' = IsExc(out)
    /\ financial_data' = EmptyRecord
    /\ NoArgs
    /\ UNCHANGED <<projection_years, terminal_growth_rate, fcfe_ret, result,
                   results, frames, heap>>

\* a caller runs FCFECalculator.calculate_terminal_value(final, g, r)
CallCalculateTerminalValue ==
    \E final_fcfe \in FinalFcfes, g \in GordonGrowthRates,
       r \in CostsOfEquity :
        \E out \in {calculate_terminal_value(final_fcfe, g, r)} :
            StaticCall("calculate_terminal_value", <<final_fcfe, g, r>>, out)

\* a caller runs FCFECalculator.calculate_per_share_value(total, shares,
\* cash, debt)
CallCalculatePerShareValue ==
    \E total \in EquityValues, shares \in ShareCounts,
       cash \in CashValues, debt \in DebtValues :
        \E out \in {calculate_per_share_value(total, shares, cash, debt)} :
            StaticCall("calculate_per_share_value",
                       <<total, shares, cash, debt>>, out)

\* a caller runs FCFECalculator.calculate_present_value(flows, tv, r)
CallCalculatePresentValue ==
    \E flows \in CashFlowLists, tv \in TerminalValues, r \in DiscountRates :
        \E out \in {calculate_present_value(flows, tv, r)} :
            StaticCall("calculate_present_value", <<flows, tv, r>>, out)

\* a caller runs FCFECalculator.project_fcfe(current, g, years); it returns
\* a list
CallProjectFcfe ==
    /\ pc = "idle"
    /\ \E current \in BaseFcfes, g \in ProjectionGrowthRates,
          years \in ProjectionYears :
         /\ static_args' = <<current, g, years>>
         /\ static_ret' = project_fcfe(current, g, years)
    /\ pc' = "done"
    /\ op' = "project_fcfe"
    /\ raised' = FALSE
    /\ financial_data' = EmptyRecord
    /\ NoArgs
    /\ UNCHANGED <<projection_years, terminal_growth_rate, fcfe_ret, result,
                   results, frames, heap>>

\* the caller has taken the returned value; the model is ready for a new call
ReturnToCaller ==
    /\ pc = "done"
    /\ pc' = "idle"
    /\ op' = "none"
    /\ financial_data' = EmptyRecord
    /\ NoArgs
    /\ fcfe_ret' = None
    /\ result' = NewResult
    /\ results' = [growth_sensitivity |-> <<>>, base_case |-> <<>>]
    /\ raised' = FALSE
    /\ NoStaticCall
    /\ UNCHANGED <<projection_years, terminal_growth_rate>>

Next ==
    \/ CallCalculateFcfe
    \/ CallCalculateFairValue
    \/ CallSensitivityAnalysis
    \/ CallCalculateTerminalValue
    \/ CallCalculatePerShareValue
    \/ CallCalculatePresentValue
    \/ CallProjectFcfe
    \/ ReturnToCaller

Spec == Init /\ [][Next]_vars

----------------------------------------------------------------------------
(* Calls of several callers on one model object, interleaved step by step  *)

seq_vars == <<pc, op, financial_data, risk_free_rate, market_return,
              custom_growth_rate, growth_rates, discount_rates, fcfe_ret,
              result, results, raised, static_args, static_ret>>

\* a call of the caller is between its first step and its return
Running(p) == frames[p].pc \notin {"idle", "done"}

\* the result dicts a caller holds a reference to
Refs(p) == {frames[p].res, frames[p].base} \ {0}
LiveIds == UNION {Refs(p) : p \in Callers}

\* variant: every call fills one result dict kept by the model
AllocResult_SharedTemplate(live) == 1

\* result = {...}: the dict literal creates new dicts, distinct from every
\* dict still referenced
AllocResult(live) ==
    CHOOSE i \in Ids \ live : \A j \in Ids \ live : i <= j

\* dropped references: the dicts are gone
Release(h, ids) == [i \in Ids |-> IF i \in ids THEN NewResult ELSE h[i]]

\* variant: setdefault in place of get, the default is stored in the record
RecordAfterGet_SetDefault(fd, key, default) ==
    IF fd[key] = Absent THEN [fd EXCEPT ![key] = default] ELSE fd

\* financial_data.get(key, default) leaves the caller's record as it is
RecordAfterGet(fd, key, default) == fd

\* the caller's record after calculate_fcfe has read what it reads
RecordAfterFcfe(fd) ==
    LET a == RecordAfterGet(fd, "free_cash_flow", None)
        b == RecordAfterGet(
                 RecordAfterGet(RecordAfterGet(a, "net_income", N(0)),
                                "capital_expenditure", N(0)),
                 "change_in_nwc", N(0))
        fcf == Get(fd, "free_cash_flow", None)
        fcfe == ComponentFcfe(Get(fd, "net_income", N(0)),
                              Get(fd, "capital_expenditure", N(0)),
                              Get(fd, "change_in_nwc", N(0)))
    IN  IF Truthy(fcf) /\ RLt(N(0), fcf) THEN a
        ELSE IF IsExc(fcfe) \/ RLt(N(0), fcfe) THEN b
        ELSE RecordAfterGet(b, "operating_cash_flow", N(0))

\* variant: the guard stores the substituted rate in the model object
ConfigAfterGuard_GuardWritesConfig(tgr, cost_of_equity) ==
    GuardedTerminalGrowth(tgr, cost_of_equity)

\* calculate_terminal_value is static and its guard rebinds its own
\* parameter: self.terminal_growth_rate is what it was
ConfigAfterGuard(tgr, cost_of_equity) == tgr

SetFrame(p, f) == frames' = [frames EXCEPT ![p] = f]
SetHeap(id, r) == heap' = [heap EXCEPT ![id] = r]

\* an exception inside the try block: the handler sets the error on the
\* result built so far and the call returns
Fail(p, f, r, e) ==
    \E h \in {ExceptHandler(Raise(r, e))} :
        /\ SetFrame(p, [f EXCEPT !.pc = "return", !.raised = h.raised])
        /\ SetHeap(f.res, h.ret)

\* the frame at the first step of a valuation with a new result dict
EnterValuation(f, custom, id) ==
    [f EXCEPT !.pc = "step1", !.custom = custom, !.res = id,
              !.current_fcfe = None, !.growth_rate = None,
              !.cost_of_equity = None, !.projected_fcfe = <<>>,
              !.terminal_value = None, !.total_pv = None]

\* the frame of a call that begins now on the record fd
EnterCall(p, mode, fd, rates) ==
    [IdleFrame EXCEPT !.mode = mode, !.fd0 = fd, !.fd = fd,
                      !.rf = rates[1], !.mr = rates[2],
                      !.years0 = projection_years,
                      !.tgr0 = terminal_growth_rate,
                      !.overlap = \E q \in Callers \ {p} : Running(q)]

\* the frames once caller p has begun the call of frame f
FramesWith(p, f) ==
    [q \in Callers |->
        IF q = p THEN f
        ELSE IF Running(q) THEN [frames[q] EXCEPT !.overlap = TRUE]
        ELSE frames[q]]

\* caller p calls model.calculate_fair_value(fd, rf, mr, custom)
BeginFairValue(p) ==
    /\ frames[p].pc = "idle"
    /\ \E fd \in ConcurrentRecords, rates \in ConcurrentRates,
          custom \in ConcurrentOverrides :
         \E id \in {AllocResult(LiveIds)} :
             /\ frames' = FramesWith(p, EnterValuation(
                              EnterCall(p, "fair_value", fd, rates),
                              custom, id))
             /\ SetHeap(id, NewResult)
    /\ UNCHANGED <<projection_years, terminal_growth_rate, seq_vars>>

\* caller p calls model.sensitivity_analysis(fd, rf, mr, growth_rates)
BeginSensitivity(p) ==
    /\ frames[p].pc = "idle"
    /\ \E fd \in ConcurrentRecords, rates \in ConcurrentRates,
          list \in ConcurrentRateLists :
         frames' = FramesWith(p, [EnterCall(p, "sensitivity", fd, rates)
                                     EXCEPT !.pc = "loop", !.rates = list])
    /\ UNCHANGED <<projection_years, terminal_growth_rate, heap, seq_vars>>

\* for gr in growth_rates: the next scenario calls calculate_fair_value
SensitivityIterates(p) ==
    /\ frames[p].pc = "loop"
    /\ frames[p].k < Len(frames[p].rates)
    /\ \E id \in {AllocResult(LiveIds)} :
         /\ SetFrame(p, EnterValuation(
                            [frames[p] EXCEPT !.k = @ + 1],
                            frames[p].rates[frames[p].k + 1], id))
         /\ SetHeap(id, NewResult)
    /\ UNCHANGED <<projection_years, terminal_growth_rate, seq_vars>>

\* the loop is over: return results
SensitivityReturns(p) ==
    /\ frames[p].pc = "loop"
    /\ frames[p].k = Len(frames[p].rates)
    /\ SetFrame(p, [frames[p] EXCEPT !.pc = "done"])
    /\ UNCHANGED <<projection_years, terminal_growth_rate, heap, seq_vars>>

\* step 1: the current FCFE
Step1(p) ==
    /\ frames[p].pc = "step1"
    /\ \E f \in {[frames[p] EXCEPT !.fd = RecordAfterFcfe(@)]},
          r \in {heap[frames[p].res]},
          current_fcfe \in {calculate_fcfe(frames[p].fd)} :
         IF FcfeRejected(current_fcfe)
         THEN /\ SetFrame(p, [f EXCEPT !.pc = "return"])
              /\ SetHeap(f.res, [r EXCEPT !.error = InvalidFCFE])
         ELSE /\ SetFrame(p, [f EXCEPT !.pc = "step2",
                                       !.current_fcfe = current_fcfe])
              /\ SetHeap(f.res, SetDetail(r, "current_fcfe", current_fcfe))
    /\ UNCHANGED <<projection_years, terminal_growth_rate, seq_vars>>

\* step 2: the growth rate
Step2(p) ==
    /\ frames[p].pc = "step2"
    /\ \E f \in {[frames[p] EXCEPT !.fd =
                     IF frames[p].custom = None
                     THEN RecordAfterGet(@, "historical_growth_rate", N(5))
                     ELSE @]},
          r \in {heap[frames[p].res]},
          growth_rate \in {ResolveGrowthRate(frames[p].fd,
                                             frames[p].custom)} :
         IF IsExc(growth_rate) THEN Fail(p, f, r, growth_rate)
         ELSE /\ SetFrame(p, [f EXCEPT !.pc = "step3",
                                       !.growth_rate = growth_rate])
              /\ SetHeap(f.res, SetAssumption(r, "growth_rate",
                                              RMul(growth_rate, N(100))))
    /\ UNCHANGED <<projection_years, terminal_growth_rate, seq_vars>>

\* step 3: the cost of equity and the assumptions it records
Step3(p) ==
    /\ frames[p].pc = "step3"
    /\ \E f \in {[frames[p] EXCEPT !.fd = RecordAfterGet(@, "beta", N(1))]},
          r \in {heap[frames[p].res]},
          beta \in {Get(frames[p].fd, "beta", N(1))} :
         \E cost_of_equity \in {calculate_cost_of_equity(f.rf, beta, f.mr)} :
             IF IsExc(cost_of_equity) THEN Fail(p, f, r, cost_of_equity)
             ELSE /\ SetFrame(p, [f EXCEPT !.pc = "step4",
                                           !.cost_of_equity = cost_of_equity])
                  /\ SetHeap(f.res,
                         SetAssumption(
                           SetAssumption(
                             SetAssumption(
                               SetAssumption(r, "cost_of_equity",
                                             RMul(cost_of_equity, N(100))),
                               "beta", beta),
                             "risk_free_rate", RMul(f.rf, N(100))),
                           "market_return", RMul(f.mr, N(100))))
    /\ UNCHANGED <<projection_years, terminal_growth_rate, seq_vars>>

\* step 4: the projection over self.projection_years
Step4(p) ==
    /\ frames[p].pc = "step4"
    /\ \E f \in {frames[p]} :
       \E projected_fcfe \in {project_fcfe(f.current_fcfe, f.growth_rate,
                                           projection_years)} :
         /\ SetFrame(p, [f EXCEPT !.pc = "step5",
                                  !.projected_fcfe = projected_fcfe])
         /\ SetHeap(f.res, SetDetail(heap[f.res], "projected_fcfe",
                                     projected_fcfe))
    /\ UNCHANGED <<projection_years, terminal_growth_rate, seq_vars>>

\* step 5: the terminal value from projected_fcfe[-1] and
\* self.terminal_growth_rate
Step5(p) ==
    /\ frames[p].pc = "step5"
    /\ \E f \in {frames[p]}, r \in {heap[frames[p].res]} :
         IF Len(f.projected_fcfe) = 0
         THEN /\ Fail(p, f, r, IndexError)
              /\ UNCHANGED terminal_growth_rate
         ELSE \E terminal_value \in
                  {calculate_terminal_value(
                       f.projected_fcfe[Len(f.projected_fcfe)],
                       terminal_growth_rate, f.cost_of_equity)} :
                /\ terminal_growth_rate' =
                       ConfigAfterGuard(terminal_growth_rate, f.cost_of_equity)
                /\ IF IsExc(terminal_value) THEN Fail(p, f, r, terminal_value)
                   ELSE /\ SetFrame(p, [f EXCEPT !.pc = "step5_record",
                                           !.terminal_value = terminal_value])
                        /\ SetHeap(f.res, SetDetail(r, "terminal_value",
                                                    terminal_value))
    /\ UNCHANGED <<projection_years, seq_vars>>

\* step 5, the assumption: self.terminal_growth_rate is read once more
Step5Record(p) ==
    /\ frames[p].pc = "step5_record"
    /\ SetFrame(p, [frames[p] EXCEPT !.pc = "step6"])
    /\ SetHeap(frames[p].res,
               SetAssumption(heap[frames[p].res], "terminal_growth_rate",
                             TerminalGrowthAssumption(
                                 terminal_growth_rate,
                                 frames[p].cost_of_equity)))
    /\ UNCHANGED <<projection_years, terminal_growth_rate, seq_vars>>

\* step 6: the total present value
Step6(p) ==
    /\ frames[p].pc = "step6"
    /\ \E f \in {frames[p]}, r \in {heap[frames[p].res]} :
       \E total_pv \in {calculate_present_value(f.projected_fcfe,
                                                f.terminal_value,
                                                f.cost_of_equity)} :
         IF IsExc(total_pv) THEN Fail(p, f, r, total_pv)
         ELSE /\ SetFrame(p, [f EXCEPT !.pc = "step7", !.total_pv = total_pv])
              /\ SetHeap(f.res, SetDetail(r, "total_present_value", total_pv))
    /\ UNCHANGED <<projection_years, terminal_growth_rate, seq_vars>>

\* steps 7 and 8: the share count and the per-share value
Step7(p) ==
    /\ frames[p].pc = "step7"
    /\ \E f \in {[frames[p] EXCEPT !.fd =
                     RecordAfterGet(@, "shares_outstanding", None)]},
          r \in {heap[frames[p].res]},
          shares_outstanding \in {Get(frames[p].fd, "shares_outstanding",
                                      None)} :
         IF SharesRejected(shares_outstanding)
         THEN /\ SetFrame(p, [f EXCEPT !.pc = "return"])
              /\ SetHeap(f.res, SharesError(r))
         ELSE \E fair_value \in
                  {calculate_per_share_value(f.total_pv, shares_outstanding,
                                             N(0), N(0))} :
                IF IsExc(fair_value) THEN Fail(p, f, r, fair_value)
                ELSE /\ SetFrame(p, [f EXCEPT !.pc = "step9"])
                     /\ SetHeap(f.res,
                            SetDetail([r EXCEPT !.fair_value = fair_value],
                                      "shares_outstanding",
                                      shares_outstanding))
    /\ UNCHANGED <<projection_years, terminal_growth_rate, seq_vars>>

\* step 9: the current price and the upside, when current_price is truthy
Step9(p) ==
    /\ frames[p].pc = "step9"
    /\ \E f \in {[frames[p] EXCEPT !.fd =
                     RecordAfterGet(@, "current_price", None)]},
          r \in {heap[frames[p].res]},
          current_price \in {Get(frames[p].fd, "current_price", None)} :
         IF ~Truthy(current_price)
         THEN /\ SetFrame(p, [f EXCEPT !.pc = "return"])
              /\ UNCHANGED heap
         ELSE \E r8 \in {SetDetail(r, "current_price", current_price)},
                 upside \in {PyMul(PyDiv(PySub(r.fair_value, current_price),
                                         current_price), N(100))} :
                IF IsExc(upside) THEN Fail(p, f, r8, upside)
                ELSE /\ SetFrame(p, [f EXCEPT !.pc = "return"])
                     /\ SetHeap(f.res, SetDetail(r8, "upside_percentage",
                                                 upside))
    /\ UNCHANGED <<projection_years, terminal_growth_rate, seq_vars>>

\* return result, to the caller of calculate_fair_value
ValuationReturns(p) ==
    /\ frames[p].pc = "return"
    /\ frames[p].mode = "fair_value"
    /\ SetFrame(p, [frames[p] EXCEPT !.pc = "done"])
    /\ UNCHANGED <<projection_years, terminal_growth_rate, heap, seq_vars>>

\* return result, to the loop of sensitivity_analysis: the entry is
\* appended, the valuation kept as base case when gr == 0.05 and dropped
\* otherwise
SensitivityCollects(p) ==
    /\ frames[p].pc = "return"
    /\ frames[p].mode = "sensitivity"
    /\ \E f \in {frames[p]} :
       \E collected \in
              {[f EXCEPT !.pc = "loop", !.res = 0,
                         !.sens = Append(@,
                             [growth_rate |-> RMul(f.custom, N(100)),
                              fair_value |-> heap[f.res].fair_value])]} :
         IF f.custom = Num(1, 20)
         THEN /\ SetFrame(p, [collected EXCEPT !.base = f.res])
              /\ heap' = Release(heap, {f.base} \ {0, f.res})
         ELSE /\ SetFrame(p, collected)
              /\ heap' = Release(heap, {f.res} \ {f.base})
    /\ UNCHANGED <<projection_years, terminal_growth_rate, seq_vars>>

\* the caller is done with what the call returned
CallerDropsResult(p) ==
    /\ frames[p].pc = "done"
    /\ SetFrame(p, IdleFrame)
    /\ heap' = Release(heap, Refs(p))
    /\ UNCHANGED <<projection_years, terminal_growth_rate, seq_vars>>

NextConcurrent ==
    \/ \E p \in Callers : BeginFairValue(p)
    \/ \E p \in Callers : BeginSensitivity(p)
    \/ \E p \in Callers : SensitivityIterates(p)
    \/ \E p \in Callers : SensitivityReturns(p)
    \/ \E p \in Callers : Step1(p)
    \/ \E p \in Callers : Step2(p)
    \/ \E p \in Callers : Step3(p)
    \/ \E p \in Callers : Step4(p)
    \/ \E p \in Callers : Step5(p)
    \/ \E p \in Callers : Step5Record(p)
    \/ \E p \in Callers : Step6(p)
    \/ \E p \in Callers : Step7(p)
    \/ \E p \in Callers : Step9(p)
    \/ \E p \in Callers : ValuationReturns(p)
    \/ \E p \in Callers : SensitivityCollects(p)
    \/ \E p \in Callers : CallerDropsResult(p)

\* one model object, constructed with one of ConcurrentConfigs
InitConcurrent ==
    /\ Init
    /\ <<projection_years, terminal_growth_rate>> \in ConcurrentConfigs

SpecConcurrent == InitConcurrent /\ [][NextConcurrent]_vars

----------------------------------------------------------------------------
(* Properties                                                              *)

FairValueDone == pc = "done" /\ op = "calculate_fair_value"
FcfeDone == pc = "done" /\ op = "calculate_fcfe"
SensitivityDone == pc = "done" /\ op = "sensitivity_analysis"
TerminalValueDone == pc = "done" /\ op = "calculate_terminal_value"
PerShareValueDone == pc = "done" /\ op = "calculate_per_share_value"
PresentValueDone == pc = "done" /\ op = "calculate_present_value"
ProjectFcfeDone == pc = "done" /\ op = "project_fcfe"

HasKey(d, key) == key \in DOMAIN d

\* a number strictly above zero
Positive(x) == IsNum(x) /\ x.n > 0

\* the FCFE step 1 derives from the record of the call
DerivedFcfe == calculate_fcfe(financial_data)

\* a field of the record of the call, None when the key is missing
Field(key) == Get(financial_data, key, None)

\* C1: after a completed calculate_fair_value exactly one of fair_value and
\* error is present in the returned result.
C1_ExactlyOneOfFairValueAndError ==
    (FairValueDone /\ ~raised) =>
        ((result.fair_value # None) <=> (result.error = NoError))

\* C1 witness: a call whose step raised inside the try block returned a
\* result with the error set and no fair value.
C1_Witness ==
    /\ FairValueDone
    /\ result.error = "ZeroDivisionError"
    /\ result.fair_value = None
    /\ HasKey(result.details, "projected_fcfe")

\* the call's beta and historical growth rate are numbers or missing, and
\* the model projects at least one year: steps 2 to 6 work on numbers only
NumericInputs ==
    /\ Get(financial_data, "beta", N(1)) # None
    /\ Get(financial_data, "historical_growth_rate", N(5)) # None
    /\ projection_years >= 1

\* C2 (as claimed): with a positive derived FCFE and positive
\* shares_outstanding, the result has no error and a numeric fair value, for
\* any numeric beta, rates and configured terminal growth rate.
C2_Claim_PositiveInputsGiveFairValue ==
    (/\ FairValueDone
     /\ NumericInputs
     /\ Positive(DerivedFcfe)
     /\ Positive(Field("shares_outstanding")))
    => (~raised /\ result.error = NoError /\ IsNum(result.fair_value))

\* C3: calculate_fair_value and sensitivity_analysis never end by propagating
\* an exception, whatever fields are missing or None and however degenerate
\* the rates are.
C3_NoExceptionPropagates ==
    ((FairValueDone \/ SensitivityDone) => ~raised)

\* C3 witness: a None beta made the CAPM step raise TypeError, which the
\* call turned into an error result.
C3_Witness ==
    /\ FairValueDone
    /\ ~raised
    /\ Field("beta") = None
    /\ result.error = "TypeError"

\* C4: when calculate_fcfe yields None or a value <= 0, the result is the
\* InvalidFCFE error with no fair value and empty details and assumptions,
\* whatever shares_outstanding holds.
C4_InvalidFcfeStopsAtStepOne ==
    (FairValueDone /\ (DerivedFcfe = None \/ ~Positive(DerivedFcfe))) =>
        /\ result.error = InvalidFCFE
        /\ result.fair_value = None
        /\ DOMAIN result.details = {}
        /\ DOMAIN result.assumptions = {}

\* C4 witness: no FCFE and no valid share count in the same record.
C4_Witness ==
    /\ FairValueDone
    /\ DerivedFcfe = None
    /\ ~Positive(Field("shares_outstanding"))
    /\ result.error = InvalidFCFE

\* C5 (as claimed): with a valid FCFE and shares_outstanding missing, zero or
\* negative, the result is the InvalidSharesOutstanding error with no fair
\* value and no shares_outstanding, current_price or upside_percentage.
C5_Claim_InvalidSharesError ==
    (/\ FairValueDone
     /\ NumericInputs
     /\ Positive(DerivedFcfe)
     /\ ~Positive(Field("shares_outstanding")))
    => /\ result.error = InvalidSharesOutstanding
       /\ result.fair_value = None
       /\ ~HasKey(result.details, "shares_outstanding")
       /\ ~HasKey(result.details, "current_price")
       /\ ~HasKey(result.details, "upside_percentage")

\* the result of the same call on the same record with a valid share count
WithValidShares ==
    calculate_fair_value(projection_years, terminal_growth_rate,
                         [financial_data EXCEPT !.shares_outstanding = N(10)],
                         risk_free_rate, market_return,
                         custom_growth_rate).ret

C6_DetailKeys ==
    {"current_fcfe", "projected_fcfe", "terminal_value", "total_present_value"}
C6_AssumptionKeys ==
    {"growth_rate", "cost_of_equity", "beta", "risk_free_rate",
     "market_return", "terminal_growth_rate"}

\* C6: a call that fails at the shares-outstanding step returns the details
\* and assumptions of steps 1 to 6, each equal to what the same call records
\* when shares_outstanding is valid.
C6_IntermediateValuesRetained ==
    (FairValueDone /\ result.error = InvalidSharesOutstanding) =>
        \A valid \in {WithValidShares} :
            /\ valid.error = NoError
            /\ \A k \in C6_DetailKeys :
                  /\ HasKey(result.details, k)
                  /\ result.details[k] = valid.details[k]
            /\ \A k \in C6_AssumptionKeys :
                  /\ HasKey(result.assumptions, k)
                  /\ result.assumptions[k] = valid.assumptions[k]

\* C6 witness: a two-year projection was valued and the share count was
\* missing.
C6_Witness ==
    /\ FairValueDone
    /\ result.error = InvalidSharesOutstanding
    /\ Field("shares_outstanding") = None
    /\ Len(result.details["projected_fcfe"]) = 2

\* a missing component counts as zero
OrZero(key) == Get(financial_data, key, N(0))

\* free_cash_flow is present and above zero
FcfUsable == Positive(Field("free_cash_flow"))

\* no component holds None, so the component sum is a number
ComponentsNumeric ==
    /\ OrZero("net_income") # None
    /\ OrZero("capital_expenditure") # None
    /\ OrZero("change_in_nwc") # None

ComponentSum ==
    RSub(RAdd(OrZero("net_income"), OrZero("capital_expenditure")),
         OrZero("change_in_nwc"))

\* C7: calculate_fcfe returns free_cash_flow when it is present and > 0,
\* whatever the other fields hold; otherwise it returns net_income +
\* capital_expenditure - change_in_nwc, missing components counted as 0,
\* when that sum is > 0.
C7_FirstPositiveCandidate ==
    FcfeDone =>
        /\ FcfUsable => fcfe_ret = Field("free_cash_flow")
        /\ (~FcfUsable /\ ComponentsNumeric /\ Positive(ComponentSum))
               => fcfe_ret = ComponentSum

\* C7 witness: free_cash_flow is -10 and the components give 200 - 50 - 20.
C7_Witness ==
    /\ FcfeDone
    /\ Field("free_cash_flow") = N(-10)
    /\ Field("net_income") = N(200)
    /\ Field("capital_expenditure") = N(-50)
    /\ Field("change_in_nwc") = N(20)
    /\ fcfe_ret = N(130)

\* operating_cash_flow and capital_expenditure are both present as numbers
OcfAndCapexPresent ==
    IsNum(Field("operating_cash_flow")) /\ IsNum(Field("capital_expenditure"))

OcfPlusCapex == RAdd(Field("operating_cash_flow"), Field("capital_expenditure"))

\* C8 (as claimed): when free_cash_flow and the component sum are not
\* positive and operating_cash_flow and capital_expenditure are both present,
\* zero included, calculate_fcfe returns their sum when it is > 0.
C8_Claim_OcfFallbackWhenPresent ==
    (/\ FcfeDone
     /\ ~FcfUsable
     /\ ComponentsNumeric
     /\ ~Positive(ComponentSum)
     /\ OcfAndCapexPresent
     /\ Positive(OcfPlusCapex))
    => fcfe_ret = OcfPlusCapex

\* one of the three strategies yields a positive value
SomeStrategyPositive ==
    \/ FcfUsable
    \/ ComponentsNumeric /\ Positive(ComponentSum)
    \/ OcfAndCapexPresent /\ Positive(OcfPlusCapex)

\* no FCFE field of the record holds None
NoNoneFcfeField == \A k \in FcfeFields : financial_data[k] # None

\* C9 (as claimed): calculate_fcfe returns None or a strictly positive
\* number, and None exactly when none of the three strategies yields a
\* positive value; stated here for the records without a None field.
C9_Claim_AbsentIffNoStrategy ==
    (FcfeDone /\ NoNoneFcfeField) =>
        /\ fcfe_ret = None \/ Positive(fcfe_ret)
        /\ (fcfe_ret = None) <=> ~SomeStrategyPositive

\* historical_growth_rate / 100 clamped to [-0.05, 0.25]
ClampedHistoricalRate ==
    LET g == RMul(Field("historical_growth_rate"), Num(1, 100))
    IN  IF g.n * 4 > g.d THEN Num(1, 4)
        ELSE IF g.n * 20 < -g.d THEN Num(-1, 20)
        ELSE g

\* C10: without an override the projection compounds at
\* historical_growth_rate / 100 clamped to [-0.05, 0.25], and the growth_rate
\* recorded in assumptions lies in [-5, 25].
C10_HistoricalRateClamped ==
    (/\ FairValueDone
     /\ custom_growth_rate = None
     /\ HasKey(result.assumptions, "growth_rate"))
    => LET recorded == result.assumptions["growth_rate"]
       IN  /\ RLe(N(-5), recorded) /\ RLe(recorded, N(25))
           /\ IsNum(Field("historical_growth_rate")) =>
                 /\ recorded = RMul(ClampedHistoricalRate, N(100))
                 /\ (HasKey(result.details, "projected_fcfe")
                        /\ Len(result.details["projected_fcfe"]) >= 1)
                    => result.details["projected_fcfe"][1] =
                           RMul(result.details["current_fcfe"],
                                RAdd(N(1), ClampedHistoricalRate))

\* C10 witness: a historical rate of 50% was recorded as 25 and used for the
\* first projected year.
C10_Witness ==
    /\ FairValueDone
    /\ custom_growth_rate = None
    /\ Field("historical_growth_rate") = N(50)
    /\ HasKey(result.assumptions, "growth_rate")
    /\ result.assumptions["growth_rate"] = N(25)
    /\ result.details["current_fcfe"] = N(500)
    /\ HasKey(result.details, "projected_fcfe")
    /\ Len(result.details["projected_fcfe"]) >= 1
    /\ result.details["projected_fcfe"][1] = N(625)

\* C11: a supplied growth-rate override (zero, negative or above 0.25) is
\* recorded times 100 in assumptions and is the rate every projected year
\* compounds at, without clamping and whatever historical_growth_rate holds.
C11_OverrideUsedAsGiven ==
    (FairValueDone /\ custom_growth_rate # None /\ Positive(DerivedFcfe)) =>
        /\ HasKey(result.assumptions, "growth_rate")
        /\ result.assumptions["growth_rate"] = RMul(custom_growth_rate, N(100))
        /\ HasKey(result.details, "projected_fcfe") =>
              \A i \in 1..Len(result.details["projected_fcfe"]) :
                  result.details["projected_fcfe"][i] =
                      RMul(IF i = 1 THEN result.details["current_fcfe"]
                           ELSE result.details["projected_fcfe"][i - 1],
                           RAdd(N(1), custom_growth_rate))

\* C11 witness: an override of 0.5 over a historical rate of 10% was recorded
\* as 50 and compounded 500 to 750.
C11_Witness ==
    /\ FairValueDone
    /\ custom_growth_rate = Num(1, 2)
    /\ Field("historical_growth_rate") = N(10)
    /\ HasKey(result.assumptions, "growth_rate")
    /\ result.assumptions["growth_rate"] = N(50)
    /\ HasKey(result.details, "projected_fcfe")
    /\ Len(result.details["projected_fcfe"]) >= 1
    /\ result.details["projected_fcfe"][1] = N(750)

\* the cost of equity step 3 computes for the call
CallCostOfEquity ==
    calculate_cost_of_equity(risk_free_rate,
                             Get(financial_data, "beta", N(1)), market_return)

\* C12 (as claimed): when the cost of equity does not exceed the configured
\* terminal growth rate, a call with a valid FCFE and a valid share count
\* still returns no error and a fair value.
C12_Claim_DegenerateRateNeverAnError ==
    (/\ FairValueDone
     /\ NumericInputs
     /\ Positive(DerivedFcfe)
     /\ Positive(Field("shares_outstanding"))
     /\ RLe(CallCostOfEquity, terminal_growth_rate))
    => (result.error = NoError /\ IsNum(result.fair_value))

\* the rate the claimed formula divides with
C13_ReplacedGrowth ==
    LET g == static_args[2]
        r == static_args[3]
    IN  IF r.n * g.d > g.n * r.d THEN g ELSE Num(r.n, 2 * r.d)

\* C13: calculate_terminal_value returns final_fcfe * (1 + g) / (r - g) with
\* the given g when r > g, and with g replaced by r * 0.5 in numerator and
\* denominator when r <= g; where r - g is zero the division raises.
C13_GordonWithReplacedGrowth ==
    TerminalValueDone =>
        LET final_fcfe == static_args[1]
            r == static_args[3]
            g == C13_ReplacedGrowth
            denominator == RSub(r, g)
        IN  IF denominator.n = 0 THEN raised
            ELSE /\ ~raised
                 /\ static_ret = Num(final_fcfe.n * (g.d + g.n) * denominator.d,
                                     final_fcfe.d * g.d * denominator.n)

\* C13 witness: r = 0.02 and g = 0.025 gave 500 * 1.01 / (0.02 - 0.01).
C13_Witness ==
    /\ TerminalValueDone
    /\ static_args = <<N(500), Num(1, 40), Num(1, 50)>>
    /\ static_ret = N(50500)

\* C14 (as claimed): a successful call on a record that holds current_price
\* writes current_price and upside_percentage = (fair_value - current_price)
\* / current_price * 100 to details; without current_price neither is written.
C14_Claim_UpsideWheneverPricePresent ==
    (FairValueDone /\ ~raised /\ result.error = NoError) =>
        IF financial_data["current_price"] # Absent
        THEN /\ HasKey(result.details, "current_price")
             /\ result.details["current_price"] = Field("current_price")
             /\ HasKey(result.details, "upside_percentage")
             /\ result.details["upside_percentage"] =
                    PyMul(PyDiv(PySub(result.fair_value,
                                      Field("current_price")),
                                Field("current_price")), N(100))
        ELSE /\ ~HasKey(result.details, "current_price")
             /\ ~HasKey(result.details, "upside_percentage")

\* the standalone calculate_fair_value call for the i-th supplied rate
StandaloneCall(i) ==
    calculate_fair_value(projection_years, terminal_growth_rate,
                         financial_data, risk_free_rate, market_return,
                         growth_rates[i]).ret

\* C15: growth_sensitivity has one entry per supplied growth rate, in the
\* supplied order, and each entry holds the rate times 100 and the
\* fair_value of a standalone call with that override (None when it errors).
C15_OneIndependentCallPerRate ==
    SensitivityDone =>
        /\ Len(results.growth_sensitivity) = Len(growth_rates)
        /\ \A i \in 1..Len(growth_rates) :
              \A alone \in {StandaloneCall(i)} :
                  /\ results.growth_sensitivity[i].growth_rate =
                         RMul(growth_rates[i], N(100))
                  /\ results.growth_sensitivity[i].fair_value =
                         alone.fair_value
                  /\ alone.error # NoError =>
                         results.growth_sensitivity[i].fair_value = None

\* C15 witness: two rates gave two entries in the supplied order with
\* different fair values.
C15_Witness ==
    /\ SensitivityDone
    /\ growth_rates = <<Num(1, 10), N(0)>>
    /\ Len(results.growth_sensitivity) = 2
    /\ results.growth_sensitivity[1].growth_rate = N(10)
    /\ results.growth_sensitivity[2].growth_rate = N(0)
    /\ IsNum(results.growth_sensitivity[1].fair_value)
    /\ IsNum(results.growth_sensitivity[2].fair_value)
    /\ results.growth_sensitivity[1].fair_value #
           results.growth_sensitivity[2].fair_value

\* the positions of the supplied list that hold exactly 0.05
BaseCasePositions == {i \in 1..Len(growth_rates) : growth_rates[i] = Num(1, 20)}

\* C16: base_case is the full result of the scenario whose rate is exactly
\* 0.05 when the supplied list has one, and stays unset otherwise.
C16_BaseCaseIsExactFivePercent ==
    SensitivityDone =>
        IF BaseCasePositions # {}
        THEN \A i \in BaseCasePositions :
                 results.base_case = <<StandaloneCall(i)>>
        ELSE results.base_case = <<>>

\* C16 witness: the 5% scenario ran first, another one after it, and the
\* base case is the 5% result with a fair value.
C16_Witness ==
    /\ SensitivityDone
    /\ growth_rates = <<Num(1, 20), Num(1, 10)>>
    /\ Len(results.base_case) = 1
    /\ results.base_case[1].error = NoError
    /\ results.base_case[1].assumptions["growth_rate"] = N(5)
    /\ results.base_case[1].fair_value = results.growth_sensitivity[1].fair_value

\* C20: calculate_per_share_value returns 0.0 for a share count of 0 and
\* total_equity_value / shares_outstanding for any other, and never raises.
C20_ZeroSharesGiveDefault ==
    PerShareValueDone =>
        LET total == static_args[1]
            shares == static_args[2]
        IN  /\ ~raised
            /\ shares.n = 0 => static_ret = N(0)
            /\ shares.n # 0 =>
                  static_ret = Num(total.n * shares.d, total.d * shares.n)

\* C20 witness: an equity value of 1000 over 0 shares returned 0.0.
C20_Witness ==
    /\ PerShareValueDone
    /\ static_args[1] = N(1000)
    /\ static_args[2] = N(0)
    /\ static_ret = N(0)
    /\ ~raised

\* the caller's calculate_fair_value call has returned
ValuationHeld(p) == frames[p].pc = "done" /\ frames[p].mode = "fair_value"

\* the caller's sensitivity_analysis call has returned
SensitivityHeld(p) == frames[p].pc = "done" /\ frames[p].mode = "sensitivity"

\* two calls were given identical data, rates and override
SameArguments(p, q) ==
    /\ frames[p].fd0 = frames[q].fd0
    /\ frames[p].rf = frames[q].rf
    /\ frames[p].mr = frames[q].mr
    /\ frames[p].custom = frames[q].custom

\* C17: two calculate_fair_value calls on the model object with identical
\* financial data, rates and override return identical results, whatever
\* calls ran before or between them.
C17_IdenticalCallsIdenticalResults ==
    \A p \in Callers, q \in Callers :
        (ValuationHeld(p) /\ ValuationHeld(q) /\ SameArguments(p, q)) =>
            heap[frames[p].res] = heap[frames[q].res]

\* C17 witness: two callers hold the results of identical successful calls.
C17_Witness ==
    /\ ValuationHeld(1)
    /\ ValuationHeld(2)
    /\ SameArguments(1, 2)
    /\ heap[frames[1].res].error = NoError
    /\ IsNum(heap[frames[1].res].fair_value)
    /\ heap[frames[2].res].fair_value = heap[frames[1].res].fair_value

\* what sensitivity_analysis returned to the caller
SensitivityReturned(p) ==
    [growth_sensitivity |-> frames[p].sens,
     base_case |-> IF frames[p].base = 0 THEN <<>>
                   ELSE <<heap[frames[p].base]>>]

\* the same call run alone on the model as it was when the call began
AloneFairValue(p) ==
    calculate_fair_value(frames[p].years0, frames[p].tgr0, frames[p].fd0,
                         frames[p].rf, frames[p].mr, frames[p].custom)
AloneSensitivity(p) ==
    sensitivity_analysis(frames[p].years0, frames[p].tgr0, frames[p].fd0,
                         frames[p].rf, frames[p].mr, frames[p].rates)

\* C18: under every interleaving of the steps of calls that run at the same
\* time on one model object with separate records, each call returns what
\* it returns when run alone.
C18_InterleavedCallsAsAlone ==
    \A p \in Callers :
        /\ ValuationHeld(p) =>
              \A alone \in {AloneFairValue(p)} :
                  /\ frames[p].raised = alone.raised
                  /\ heap[frames[p].res] = alone.ret
        /\ SensitivityHeld(p) =>
              \A alone \in {AloneSensitivity(p)} :
                  /\ frames[p].raised = alone.raised
                  /\ SensitivityReturned(p) = alone.ret

\* C18 witness: a valuation that overlapped with another caller's call has
\* returned its fair value while that caller's sensitivity run, which
\* overlapped as well, is in the middle of a scenario.
C18_Witness ==
    /\ ValuationHeld(1)
    /\ frames[1].overlap
    /\ heap[frames[1].res].error = NoError
    /\ frames[2].mode = "sensitivity"
    /\ frames[2].overlap
    /\ frames[2].pc = "step6"
    /\ frames[2].k = 2

\* C19: a call leaves the caller's record and the model's configuration as
\* they were when it began, on success and on every error path, and the
\* result dicts one caller holds are held by no other caller.
C19_InputsUntouchedResultsFresh ==
    \A p \in Callers :
        /\ frames[p].pc # "idle" =>
              /\ frames[p].fd = frames[p].fd0
              /\ projection_years = frames[p].years0
              /\ terminal_growth_rate = frames[p].tgr0
        /\ \A q \in Callers \ {p} : Refs(p) \cap Refs(q) = {}
        /\ Running(p) /\ frames[p].base # 0 => frames[p].res # frames[p].base

\* C19 witness: one caller holds the result of a call that failed at the
\* share count, the other the base case of a sensitivity run whose
\* scenarios raised inside the try block.
C19_Witness ==
    /\ ValuationHeld(1)
    /\ heap[frames[1].res].error = InvalidSharesOutstanding
    /\ frames[1].fd = frames[1].fd0
    /\ SensitivityHeld(2)
    /\ frames[2].base # 0
    /\ heap[frames[2].base].error = "TypeError"
    /\ frames[2].fd = frames[2].fd0

\* the record of the call with other balance-sheet values
WithBalanceSheet(cash, debt, cap) ==
    [financial_data EXCEPT !.cash = cash, !.total_debt = debt,
                           !.market_cap = cap]

\* the balance sheet a record is compared under: no cash, a large debt and
\* a None market capitalisation
BalanceSheets == {<<N(0), N(5000), None>>}

\* C21: the result of calculate_fair_value is the same for records that
\* differ only in cash, total_debt or market_cap, and
\* calculate_per_share_value returns the same value for every cash and debt.
C21_NoCashOrDebtAdjustment ==
    /\ FairValueDone =>
          \A b \in BalanceSheets :
              calculate_fair_value(projection_years, terminal_growth_rate,
                                   WithBalanceSheet(b[1], b[2], b[3]),
                                   risk_free_rate, market_return,
                                   custom_growth_rate).ret = result
    /\ PerShareValueDone =>
          \A cash \in CashValues, debt \in DebtValues :
              \E other \in {calculate_per_share_value(static_args[1],
                                                      static_args[2],
                                                      cash, debt)} :
                  /\ IsExc(other) = raised
                  /\ ~raised => other = static_ret

\* C21 witness: a record reporting cash 1000 and debt 300 was valued at the
\* total present value over the share count.
C21_Witness ==
    /\ FairValueDone
    /\ financial_data["cash"] = N(1000)
    /\ financial_data["total_debt"] = N(300)
    /\ result.error = NoError
    /\ result.fair_value =
           RMul(result.details["total_present_value"], Num(1, 10))

\* (1 + r)^t
RECURSIVE DiscountFactor(_, _)
DiscountFactor(r, t) ==
    IF t = 0 THEN N(1) ELSE RMul(RAdd(N(1), r), DiscountFactor(r, t - 1))

\* the sum over t = 1..k of flows[t] / (1 + r)^t
RECURSIVE DiscountedFlows(_, _, _)
DiscountedFlows(flows, r, k) ==
    IF k = 0 THEN N(0)
    ELSE RAdd(DiscountedFlows(flows, r, k - 1),
              RMul(flows[k], RInv(DiscountFactor(r, k))))

\* the sum of the discounted flows plus terminal / (1 + r)^N, N = Len(flows)
ExpectedPresentValue(flows, terminal, r) ==
    RAdd(DiscountedFlows(flows, r, Len(flows)),
         RMul(terminal, RInv(DiscountFactor(r, Len(flows)))))

\* C22: calculate_present_value returns the sum over t = 1..N of
\* fcfe_t / (1 + r)^t plus terminal_value / (1 + r)^N with N the length of
\* the projected sequence, both when called directly (wherever the powers
\* of 1 + r can be divided by) and as step 6 of calculate_fair_value.
C22_PresentValueFormula ==
    /\ (/\ PresentValueDone
        /\ \/ Len(static_args[1]) = 0
           \/ RAdd(N(1), static_args[3]).n # 0) =>
           /\ ~raised
           /\ static_ret = ExpectedPresentValue(static_args[1], static_args[2],
                                                static_args[3])
    /\ (FairValueDone /\ HasKey(result.details, "total_present_value")) =>
           result.details["total_present_value"] =
               ExpectedPresentValue(
                   result.details["projected_fcfe"],
                   result.details["terminal_value"],
                   RMul(result.assumptions["cost_of_equity"], Num(1, 100)))

\* C22 witness: flows 100 and 110 with a terminal value of 1000 at 10%
\* returned (110 + 110 + 1000) / 1.21.
C22_Witness ==
    /\ PresentValueDone
    /\ static_args = <<(<<N(100), N(110)>>), N(1000), Num(1, 10)>>
    /\ static_ret = Num(122000, 121)


\* current * (1 + g)^t
Compounded(current, g, t) == RMul(current, DiscountFactor(g, t))

\* a projection of the given length whose t-th element is current * (1 + g)^t
IsCompoundedProjection(projection, current, g, years) ==
    /\ Len(projection) = years
    /\ \A t \in 1..years : projection[t] = Compounded(current, g, t)

\* C23: project_fcfe(current, g, years) returns exactly `years` elements and
\* the t-th equals current * (1 + g)^t, so the first is one compounding step
\* beyond the base; the same holds for the projected_fcfe a valuation records
\* from its current_fcfe and growth rate.
C23_ProjectionCompounds ==
    /\ (ProjectFcfeDone /\ static_args[3] >= 0) =>
           IsCompoundedProjection(static_ret, static_args[1], static_args[2],
                                  static_args[3])
    /\ (/\ FairValueDone
        /\ HasKey(result.details, "projected_fcfe")
        /\ projection_years >= 0) =>
           IsCompoundedProjection(
               result.details["projected_fcfe"],
               result.details["current_fcfe"],
               RMul(result.assumptions["growth_rate"], Num(1, 100)),
               projection_years)

\* C23 witness: project_fcfe(100, 0.05, 2) returned [105, 110.25].
C23_Witness ==
    /\ ProjectFcfeDone
    /\ static_args = <<N(100), Num(1, 20), 2>>
    /\ static_ret = <<N(105), Num(441, 4)>>

\* the beta step 3 uses: the record's beta, 1.0 when the key is missing
BetaUsed == IF financial_data["beta"] = Absent THEN N(1) ELSE financial_data["beta"]

\* risk_free + beta * (market_return - risk_free), multiplied out
Capm(rf, beta, mr) == RAdd(RMul(rf, RSub(N(1), beta)), RMul(beta, mr))

\* C24: a valuation that got past step 3 recorded beta as taken from the
\* record (1.0 when missing), risk_free_rate * 100, market_return * 100 and
\* cost_of_equity * 100 with cost of equity
\* risk_free + beta * (market_return - risk_free), unclamped; with a numeric
\* or missing beta every valuation that got past step 2 records them.
C24_CapmRecordedUnclamped ==
    FairValueDone =>
        /\ HasKey(result.assumptions, "cost_of_equity") =>
               /\ IsNum(BetaUsed)
               /\ result.assumptions["beta"] = BetaUsed
               /\ result.assumptions["risk_free_rate"] =
                      RMul(risk_free_rate, N(100))
               /\ result.assumptions["market_return"] =
                      RMul(market_return, N(100))
               /\ result.assumptions["cost_of_equity"] =
                      RMul(Capm(risk_free_rate, BetaUsed, market_return),
                           N(100))
        /\ (HasKey(result.assumptions, "growth_rate") /\ IsNum(BetaUsed)) =>
               HasKey(result.assumptions, "cost_of_equity")

\* C24 witness: beta 2, risk-free 5% and a market return of -100% recorded a
\* cost of equity of -205%.
C24_Witness ==
    /\ FairValueDone
    /\ financial_data["beta"] = N(2)
    /\ risk_free_rate = Num(1, 20)
    /\ market_return = N(-1)
    /\ HasKey(result.assumptions, "cost_of_equity")
    /\ result.assumptions["cost_of_equity"] = N(-205)
    /\ result.assumptions["beta"] = N(2)

\* the keys calculate_fair_value writes to assumptions and to details
AssumptionKeys == {"growth_rate", "cost_of_equity", "beta", "risk_free_rate", "market_return", "terminal_growth_rate"}
DetailKeys == {"current_fcfe", "projected_fcfe", "terminal_value", "total_present_value", "shares_outstanding", "current_price", "upside_percentage"}

\* the degeneracy guard fired in the call: cost of equity <= configured rate
GuardFired ==
    /\ HasKey(result.assumptions, "cost_of_equity")
    /\ RLe(RMul(result.assumptions["cost_of_equity"], Num(1, 100)),
           terminal_growth_rate)

\* C25: the terminal_growth_rate a valuation records is the configured rate
\* times 100, also when the guard fired (then it differs from the substituted
\* rate the terminal value was computed with), and the result has no other
\* field that could hold the substituted rate.
C25_ConfiguredRateRecorded ==
    FairValueDone =>
        /\ DOMAIN result.assumptions \subseteq AssumptionKeys
        /\ DOMAIN result.details \subseteq DetailKeys
        /\ HasKey(result.assumptions, "terminal_growth_rate") =>
               /\ result.assumptions["terminal_growth_rate"] =
                      RMul(terminal_growth_rate, N(100))
               /\ GuardFired =>
                      result.assumptions["terminal_growth_rate"] #
                          RMul(result.assumptions["cost_of_equity"], Num(1, 2))

\* C25 witness: configured 25%, cost of equity 10%: the terminal value was
\* computed with 5% (final * 1.05 / 0.05) and 25 was recorded.
C25_Witness ==
    /\ FairValueDone
    /\ result.error = NoError
    /\ terminal_growth_rate = Num(1, 4)
    /\ result.assumptions["cost_of_equity"] = N(10)
    /\ Len(result.details["projected_fcfe"]) > 0
    /\ result.details["terminal_value"] =
           RMul(result.details["projected_fcfe"][Len(result.details["projected_fcfe"])],
                N(21))
    /\ result.assumptions["terminal_growth_rate"] = N(25)

\* the call got to the per-share division: it set a fair value or recorded
\* the share count
PerShareDivisionReached ==
    \/ result.fair_value # None
    \/ HasKey(result.details, "shares_outstanding")

\* C26: a valuation reaches the per-share division only with a
\* shares_outstanding that is present and > 0, so the fair value is the
\* quotient total_present_value / shares_outstanding and never the 0.0 the
\* division guard returns for a zero denominator.
C26_DivisionOnlyWithValidShares ==
    (FairValueDone /\ PerShareDivisionReached) =>
        /\ Positive(Field("shares_outstanding"))
        /\ HasKey(result.details, "total_present_value")
        /\ result.details["shares_outstanding"] = Field("shares_outstanding")
        /\ result.fair_value =
               RMul(result.details["total_present_value"],
                    RInv(Field("shares_outstanding")))

\* C26 witness: a valuation with 10 shares divided a non-zero total present
\* value by them.
C26_Witness ==
    /\ FairValueDone
    /\ Field("shares_outstanding") = N(10)
    /\ PerShareDivisionReached
    /\ result.details["total_present_value"].n # 0
    /\ RMul(result.fair_value, N(10)) = result.details["total_present_value"]

\* an entry of the returned results reports a valuation run with the given
\* discount rate: it names the rate, or it is a valuation whose cost of
\* equity is the rate
RunWithDiscountRate(entry, rate) ==
    \/ /\ "discount_rate" \in DOMAIN entry
       /\ entry.discount_rate = RMul(rate, N(100))
    \/ /\ "assumptions" \in DOMAIN entry
       /\ HasKey(entry.assumptions, "cost_of_equity")
       /\ entry.assumptions["cost_of_equity"] = RMul(rate, N(100))

\* C27 (as claimed): for each discount rate supplied in discount_rates the
\* results returned by sensitivity_analysis report a valuation run with it.
C27_Claim_EveryDiscountRateTested ==
    SensitivityDone =>
        \A i \in 1..Len(discount_rates) :
            \E key \in DOMAIN results :
                \E j \in 1..Len(results[key]) :
                    RunWithDiscountRate(results[key][j], discount_rates[i])

\* the growth rate step 2 resolves for the call
GrowthRateUsed == ResolveGrowthRate(financial_data, custom_growth_rate)

\* FCFE > 0, shares_outstanding > 0, the growth rate used > -1 and
\* cost of equity > configured terminal growth rate > -1
PositiveValuationInputs ==
    /\ Positive(DerivedFcfe)
    /\ Positive(Field("shares_outstanding"))
    /\ IsNum(GrowthRateUsed) /\ RLt(N(-1), GrowthRateUsed)
    /\ IsNum(BetaUsed)
    /\ RLt(terminal_growth_rate,
           Capm(risk_free_rate, BetaUsed, market_return))
    /\ RLt(N(-1), terminal_growth_rate)

\* no error, and a fair value, projected FCFEs, terminal value and total
\* present value all strictly positive
PositiveValuation ==
    /\ ~raised
    /\ result.error = NoError
    /\ Positive(result.fair_value)
    /\ HasKey(result.details, "projected_fcfe")
    /\ \A t \in 1..Len(result.details["projected_fcfe"]) :
           Positive(result.details["projected_fcfe"][t])
    /\ HasKey(result.details, "terminal_value")
    /\ Positive(result.details["terminal_value"])
    /\ HasKey(result.details, "total_present_value")
    /\ Positive(result.details["total_present_value"])

\* C28 (as claimed): with FCFE > 0, shares_outstanding > 0, a growth rate
\* used > -1 and cost of equity > configured terminal growth rate > -1 every
\* valuation returns no error and a strictly positive fair value, projection,
\* terminal value and total present value.
C28_Claim_PositiveInputsPositiveValuation ==
    (FairValueDone /\ PositiveValuationInputs) => PositiveValuation

\* C28 (amended): the same for a model that projects at least one year.
C28_PositiveValuationWhenYearsProjected ==
    (FairValueDone /\ PositiveValuationInputs /\ projection_years >= 1) =>
        PositiveValuation

\* C28 witness: a shrinking FCFE (override -10%) projected over two years
\* still gave a positive valuation.
C28_Witness ==
    /\ FairValueDone
    /\ PositiveValuationInputs
    /\ projection_years = 2
    /\ custom_growth_rate = Num(-1, 10)
    /\ PositiveValuation
    /\ RLt(result.details["projected_fcfe"][2], result.details["projected_fcfe"][1])

\* FCFE > 0, shares_outstanding > 0 and cost of equity > configured
\* terminal growth rate > -1 for the record and rates of the call
PositiveSensitivityInputs ==
    /\ Positive(DerivedFcfe)
    /\ Positive(Field("shares_outstanding"))
    /\ IsNum(BetaUsed)
    /\ RLt(terminal_growth_rate,
           Capm(risk_free_rate, BetaUsed, market_return))
    /\ RLt(N(-1), terminal_growth_rate)

\* the fair value sensitivity_analysis reports for its i-th growth rate
ReportedFairValue(i) == results.growth_sensitivity[i].fair_value

\* C29: in the results of sensitivity_analysis, with FCFE > 0,
\* shares_outstanding > 0 and cost of equity > configured terminal growth
\* rate > -1, the reported fair value is non-decreasing in the growth rate:
\* for supplied rates g1 <= g2, both > -1, fair_value(g1) <= fair_value(g2);
\* a model that projects at least one year reports a number for each.
C29_FairValueMonotoneInGrowth ==
    (SensitivityDone /\ PositiveSensitivityInputs) =>
        \A i, j \in 1..Len(growth_rates) :
            (/\ RLt(N(-1), growth_rates[i])
             /\ RLe(growth_rates[i], growth_rates[j])) =>
                /\ projection_years >= 1 =>
                       /\ IsNum(ReportedFairValue(i))
                       /\ IsNum(ReportedFairValue(j))
                /\ (IsNum(ReportedFairValue(i)) /\ IsNum(ReportedFairValue(j))) =>
                       RLe(ReportedFairValue(i), ReportedFairValue(j))

\* C29 witness: rates 10% and 0% given in that order; the second reported fair
\* value is strictly below the first.
C29_Witness ==
    /\ SensitivityDone
    /\ PositiveSensitivityInputs
    /\ growth_rates = <<Num(1, 10), N(0)>>
    /\ IsNum(ReportedFairValue(1))
    /\ IsNum(ReportedFairValue(2))
    /\ RLt(ReportedFairValue(2), ReportedFairValue(1))

\* steps 1 to 3 of the call succeed: a valid FCFE, a numeric growth rate and
\* a numeric beta
ReachesProjection ==
    /\ Positive(DerivedFcfe)
    /\ IsNum(GrowthRateUsed)
    /\ IsNum(BetaUsed)

\* C30: a model configured with projection_years <= 0 never produces a fair
\* value: project_fcfe returns an empty sequence, and every valuation returns
\* an error, no fair value and details holding nothing but current_fcfe and
\* the empty projected_fcfe; a call that gets to the projection holds both
\* and fails at the terminal-value step reading the final-year FCFE.
C30_NoFairValueWithoutProjection ==
    /\ (ProjectFcfeDone /\ static_args[3] <= 0) => static_ret = <<>>
    /\ (FairValueDone /\ projection_years <= 0) =>
           /\ ~raised
           /\ result.error # NoError
           /\ result.fair_value = None
           /\ DOMAIN result.details \subseteq {"current_fcfe", "projected_fcfe"}
           /\ HasKey(result.details, "projected_fcfe") =>
                  result.details["projected_fcfe"] = <<>>
           /\ ReachesProjection =>
                  /\ DOMAIN result.details = {"current_fcfe", "projected_fcfe"}
                  /\ result.details["current_fcfe"] = DerivedFcfe
                  /\ result.error = ExcMessage(IndexError)

\* C30 witness: a model with projection_years = -1 valued a record with a
\* free cash flow of 500 and 10 shares and returned the IndexError.
C30_Witness ==
    /\ FairValueDone
    /\ projection_years = -1
    /\ Field("shares_outstanding") = N(10)
    /\ result.error = ExcMessage(IndexError)
    /\ result.fair_value = None
    /\ result.details = [current_fcfe |-> N(500), projected_fcfe |-> <<>>]

============================================================================
